---- MODULE Spec2Model ----
(***************************************************************************)
(* A model of the DRM backend in backend/drm/drm.c: the connector scan,    *)
(* the display state machine, mode selection, CRTC allocation, the page    *)
(* flip pipeline and display teardown.                                     *)
(***************************************************************************)
EXTENDS Integers, Sequences, FiniteSets, TLC

(* ------------------------------------------------------------------ *)
(* Bounds of the model                                                 *)
(* ------------------------------------------------------------------ *)
\* largest connector count the hardware reports (res->count_connectors)
MaxConn == 2
\* number of CRTCs the hardware reports (res->count_crtcs)
NumCrtcs == 2
\* page-flip completion events that can sit unread on the DRM fd
MaxEvq == 2
\* longest mode list given to select_mode in the mode-selection specification
MaxModes == 2

(* ------------------------------------------------------------------ *)
(* Strings: a C string is the sequence of its characters               *)
(* ------------------------------------------------------------------ *)
Digits == {"0", "1", "2", "3", "4", "5", "6", "7", "8", "9"}

DigitVal(c) ==
  CASE c = "0" -> 0 [] c = "1" -> 1 [] c = "2" -> 2 [] c = "3" -> 3
    [] c = "4" -> 4 [] c = "5" -> 5 [] c = "6" -> 6 [] c = "7" -> 7
    [] c = "8" -> 8 [] c = "9" -> 9

DigitChar(n) == <<"0", "1", "2", "3", "4", "5", "6", "7", "8", "9">>[n + 1]

\* printf("%u"): the decimal digits of n
RECURSIVE FmtUInt(_)
FmtUInt(n) ==
  IF n < 10 THEN <<DigitChar(n)>>
  ELSE FmtUInt(n \div 10) \o <<DigitChar(n % 10)>>

StrPreferred == <<"p", "r", "e", "f", "e", "r", "r", "e", "d">>
StrCurrent == <<"c", "u", "r", "r", "e", "n", "t">>

\* the request "<w>x<h>" and the request "<w>x<h>@<r>"
FmtWH(w, h) == FmtUInt(w) \o <<"x">> \o FmtUInt(h)
FmtWHR(w, h, r) == FmtWH(w, h) \o <<"@">> \o FmtUInt(r)

\* first position at or after i of s that holds no digit
RECURSIVE DigitsEnd(_, _)
DigitsEnd(s, i) ==
  IF i <= Len(s) /\ s[i] \in Digits THEN DigitsEnd(s, i + 1) ELSE i

\* value of the digits s[i..j-1], continuing from acc
RECURSIVE DigitsVal(_, _, _, _)
DigitsVal(s, i, j, acc) ==
  IF i >= j THEN acc ELSE DigitsVal(s, i + 1, j, acc * 10 + DigitVal(s[i]))

\* sscanf(str, "%ux%u@%u", &width, &height, &rate) with width, height and
\* rate preset to 0: the number of conversions and the three values
Sscanf(str) ==
  LET e1 == DigitsEnd(str, 1)
      w == DigitsVal(str, 1, e1, 0)
      e2 == DigitsEnd(str, e1 + 1)
      h == DigitsVal(str, e1 + 1, e2, 0)
      e3 == DigitsEnd(str, e2 + 1)
      r == DigitsVal(str, e2 + 1, e3, 0)
  IN  IF e1 = 1
        THEN [ret |-> IF Len(str) = 0 THEN -1 ELSE 0,
              width |-> 0, height |-> 0, rate |-> 0]
      ELSE IF ~(e1 <= Len(str) /\ str[e1] = "x") \/ e2 = e1 + 1
        THEN [ret |-> 1, width |-> w, height |-> 0, rate |-> 0]
      ELSE IF ~(e2 <= Len(str) /\ str[e2] = "@") \/ e3 = e2 + 1
        THEN [ret |-> 2, width |-> w, height |-> h, rate |-> 0]
      ELSE [ret |-> 3, width |-> w, height |-> h, rate |-> r]

(* ------------------------------------------------------------------ *)
(* select_mode                                                         *)
(* ------------------------------------------------------------------ *)
\* a drmModeModeInfo, reduced to the fields the code reads
Mode(h, v, r) == [hdisplay |-> h, vdisplay |-> v, vrefresh |-> r]

\* no drmModeCrtc (old_crtc == NULL)
NoCrtc == [present |-> FALSE, mode |-> Mode(0, 0, 0), freed |-> FALSE]
\* a drmModeCrtc returned by drmModeGetCrtc whose mode is m; freed is set
\* once drmModeFreeCrtc has released it (the pointer then dangles)
Crtc(m) == [present |-> TRUE, mode |-> m, freed |-> FALSE]

\* results of select_mode other than an index into modes
SelNull == 0
SelAbort == -1

\* the first of the indices in found (the index at which a search loop over
\* the mode list returns), or SelNull when the loop falls through
FirstIndex(found) ==
  IF found = {} THEN SelNull
  ELSE CHOOSE i \in found : \A k \in found : i <= k

\* the numeric branch of select_mode
SelectNumeric(modes, str) ==
  LET sc == Sscanf(str)
      Match(m) == /\ m.hdisplay = sc.width
                  /\ m.vdisplay = sc.height
                  /\ (sc.rate = 0 \/ m.vrefresh = sc.rate)
  IN  IF sc.ret # 2 /\ sc.ret # 3 THEN SelNull
      ELSE FirstIndex({i \in 1..Len(modes) : Match(modes[i])})

\* select_mode(num_modes, modes, old_crtc, str): the index of the mode
\* returned (1-based), SelNull for NULL, SelAbort when assert(0) is reached
SelectMode(modes, old_crtc, str) ==
  IF str = StrPreferred THEN 1
  ELSE IF str = StrCurrent THEN
    IF ~old_crtc.present THEN SelNull
    ELSE LET i == FirstIndex({k \in 1..Len(modes) : modes[k] = old_crtc.mode})
         IN  IF i # SelNull THEN i ELSE SelAbort
  ELSE SelectNumeric(modes, str)

(* ------------------------------------------------------------------ *)
(* State                                                               *)
(* ------------------------------------------------------------------ *)
VARIABLES
  displays,      \* backend->displays[0 .. display_len-1], slot i for connector i
  taken_crtcs,   \* backend->taken_crtcs, as the set of the bit numbers set
  hw_flip,       \* hardware: hw_flip[j] is the display a flip pending on CRTC j
                 \* was submitted for, 0 when no flip is pending on CRTC j
  evq,           \* hardware: completion events queued on the DRM fd, unread
  last_setcrtc,  \* hardware: the configuration drmModeSetCrtc last applied
                 \* on behalf of each display
  freeing,       \* the display wlr_drm_display_free is busy-waiting for, or 0
  crashed,       \* the process was terminated (assert, invalid free)
  emitted,       \* the events wlr_drm_add_event queued in the last operation
  lastOp,        \* history: the last operation, its display and its result
  scanIn,        \* history: what the hardware answered to the last operation
                 \* when that was a scan
  ep,            \* history: the events of display slot 1 since its last plug
  maxGrown,      \* history: largest connector count of a scan not cut short
  maxSeen,       \* history: largest connector count the hardware reported
  sm,            \* the call of select_mode under test (mode-selection spec)
  al             \* the CRTC allocation under test (allocation-step spec)

vars == <<displays, taken_crtcs, hw_flip, evq, last_setcrtc, freeing,
          crashed, emitted, lastOp, scanIn, ep, maxGrown, maxSeen, sm, al>>

Conns == 1..MaxConn
CrtcIdx == 1..NumCrtcs
display_len == Len(displays)

\* res->connectors[i] and res->crtcs[j]: object ids are never 0
ConnId(i) == 100 + i
CrtcId(j) == 200 + j

\* a slot as wlr_drm_scan_connectors initialises it. Left out: the renderer
\* pointer, the same for every slot; active_mode, width and height, which
\* are written by the modeset and only handed on to the rendering calls
InvalidDisplay ==
  [state |-> "INVALID", connector |-> 0, name |-> <<>>, crtc |-> 0,
   modes |-> <<>>, modes_st |-> "null",
   old_crtc |-> NoCrtc, gbm |-> "null", egl |-> "null",
   pageflip_pending |-> FALSE, cleanup |-> FALSE]

Event(i, k) == [disp |-> i, kind |-> k]

\* an entry of the history: operation, display, result, and for a scan the
\* number of slots it added to the table
Op(o, i, r, n) == [op |-> o, disp |-> i, ret |-> r, n |-> n]

\* conn_name[conn->connector_type] and conn->connector_type_id of connector i
ConnTypeName(i) ==
  IF i % 2 = 1 THEN <<"H", "D", "M", "I", "-", "A">> ELSE <<"D", "P">>
ConnTypeId(i) == (i + 1) \div 2
\* snprintf(disp->name, ..., "%s-%u", ...)
ConnName(i) == ConnTypeName(i) \o <<"-">> \o FmtUInt(ConnTypeId(i))

(* ------------------------------------------------------------------ *)
(* wlr_drm_scan_connectors                                             *)
(* ------------------------------------------------------------------ *)
\* mutant of GrowTable: the grown table is allocated afresh, not reallocated
GrowTableFresh(tbl, count) ==
  IF count > Len(tbl) THEN [k \in 1..count |-> InvalidDisplay] ELSE tbl

\* the table after the realloc block: grown to count slots, new ones INVALID
GrowTable(tbl, count) ==
  IF count > Len(tbl)
    THEN tbl \o [k \in 1..(count - Len(tbl)) |-> InvalidDisplay]
    ELSE tbl

\* mutant of ScanStamp: the state of the slot is not tested
ScanStampAlways(d, i) ==
  [d EXCEPT !.state = "DISCONNECTED", !.connector = ConnId(i),
            !.name = ConnName(i)]

\* first step of the loop body: a slot never seen becomes DISCONNECTED
ScanStamp(d, i) ==
  IF d.state = "INVALID"
    THEN [d EXCEPT !.state = "DISCONNECTED", !.connector = ConnId(i),
                   !.name = ConnName(i)]
    ELSE d

\* the loop body for connector i whose query succeeded: the slot afterwards;
\* connected is conn->connection == DRM_MODE_CONNECTED
ScanConnector(d, i, connected) ==
  LET s == ScanStamp(d, i)
  IN  IF s.state = "DISCONNECTED" /\ connected
        THEN [s EXCEPT !.state = "NEEDS_MODESET"]
      ELSE IF s.state = "CONNECTED" /\ ~connected
        THEN [s EXCEPT !.state = "DISCONNECTED"]
      ELSE s

\* mutant of ScanEvents: a disconnect queues nothing
ScanEventsNoRem(d, i, connected) ==
  IF ScanStamp(d, i).state = "DISCONNECTED" /\ connected
    THEN <<Event(i, "DISPLAY_ADD")>> ELSE <<>>

\* the loop body for connector i whose query succeeded: the events queued
ScanEvents(d, i, connected) ==
  LET s == ScanStamp(d, i)
  IN  IF s.state = "DISCONNECTED" /\ connected
        THEN <<Event(i, "DISPLAY_ADD")>>
      ELSE IF s.state = "CONNECTED" /\ ~connected
        THEN <<Event(i, "DISPLAY_REM")>>
      ELSE <<>>

\* what drmModeGetConnector answers for one connector: NULL ("fail"), or a
\* connector with its connection flag
ConnAnswers == {"fail", "connected", "disconnected"}

\* the for loop over the connectors from i on; conn[i] is the answer for
\* connector i and Len(conn) is res->count_connectors
RECURSIVE ScanLoopEvents(_, _, _)
ScanLoopEvents(tbl, i, conn) ==
  IF i > Len(conn) THEN <<>>
  ELSE (IF conn[i] # "fail"
          THEN ScanEvents(tbl[i], i, conn[i] = "connected") ELSE <<>>)
       \o ScanLoopEvents(tbl, i + 1, conn)

\* mutant of ScanLoopTable: the loop ends at the first connector whose
\* query fails
ScanLoopTableBreak(tbl, conn) ==
  [i \in 1..Len(tbl) |->
     IF i <= Len(conn) /\ \A k \in 1..i : conn[k] # "fail"
       THEN ScanConnector(tbl[i], i, conn[i] = "connected") ELSE tbl[i]]

ScanLoopTable(tbl, conn) ==
  [i \in 1..Len(tbl) |->
     IF i <= Len(conn) /\ conn[i] # "fail"
       THEN ScanConnector(tbl[i], i, conn[i] = "connected") ELSE tbl[i]]

\* the scan was cut short: no resources, or realloc failed
ScanAborted(tbl, in) ==
  ~in.resOk \/ (Len(in.conn) > Len(tbl) /\ ~in.reallocOk)

\* what the hardware and the allocator can answer to one scan: whether
\* drmModeGetResources succeeds, the answer for each of its connectors,
\* whether realloc succeeds
ScanInputs ==
  {[resOk |-> FALSE, reallocOk |-> TRUE, conn |-> <<>>]}
  \cup {[resOk |-> TRUE, reallocOk |-> b, conn |-> q] :
          b \in BOOLEAN, q \in UNION {[1..n -> ConnAnswers] : n \in 0..MaxConn}}

ScanCore(in) ==
  /\ freeing = 0 /\ ~crashed
  /\ in \in ScanInputs
  /\ ~in.reallocOk => Len(in.conn) > display_len
  /\ IF ScanAborted(displays, in)
       THEN /\ displays' = displays
            /\ emitted' = <<>>
       ELSE LET grown == GrowTable(displays, Len(in.conn))
            IN  /\ displays' = ScanLoopTable(grown, in.conn)
                /\ emitted' = ScanLoopEvents(grown, 1, in.conn)
  /\ maxGrown' = IF ScanAborted(displays, in) \/ Len(in.conn) <= maxGrown
                    THEN maxGrown ELSE Len(in.conn)
  /\ maxSeen' = IF in.resOk /\ Len(in.conn) > maxSeen
                   THEN Len(in.conn) ELSE maxSeen
  /\ lastOp' = Op("scan", 0, ~ScanAborted(displays, in),
                  IF ScanAborted(displays, in) THEN 0
                  ELSE Len(GrowTable(displays, Len(in.conn))) - Len(displays))
  /\ UNCHANGED <<taken_crtcs, hw_flip, evq, last_setcrtc, freeing, crashed, sm, al>>

(* ------------------------------------------------------------------ *)
(* Hardware the modeset talks to                                       *)
(* ------------------------------------------------------------------ *)
\* conn->modes of connector c, in hardware order
HwModes(c) == <<Mode(8, 6, 60), Mode(8, 6, 30)>>
\* a mode no connector lists
AlienMode == Mode(4, 3, 60)
\* what drmModeGetCrtc can return for the connector's current encoder:
\* NULL, a CRTC running a mode of the connector, a CRTC running another mode
ListedSnaps(c) == {NoCrtc, Crtc(HwModes(c)[1])}
CrtcSnaps(c) == ListedSnaps(c) \cup {Crtc(AlienMode)}

\* conn->encoders of connector c: its own encoder, then a shared one
SharedEnc == MaxConn + 1
ConnEncoders(c) == <<c, SharedEnc>>
\* enc->possible_crtcs, as the set of the bit numbers set
PossibleCrtcs(e) ==
  IF e = SharedEnc THEN CrtcIdx ELSE {((e - 1) % NumCrtcs) + 1}

\* the mode requests the callers make
ModesetStrs == {StrPreferred, StrCurrent, FmtWH(9, 9)}

(* ------------------------------------------------------------------ *)
(* wlr_drm_display_modeset                                             *)
(* ------------------------------------------------------------------ *)
\* mutant of FirstFreeCrtc: taken_crtcs is not tested
FirstFreeCrtcIgnoreTaken(taken, e) ==
  CHOOSE j \in PossibleCrtcs(e) : \A k \in PossibleCrtcs(e) : j <= k

\* the inner loop over the CRTCs for encoder e: the first bit j that is
\* possible for e and not taken, or 0
FirstFreeCrtc(taken, e) ==
  LET ok == {j \in CrtcIdx : j \in PossibleCrtcs(e) /\ j \notin taken}
  IN  IF ok = {} THEN 0 ELSE CHOOSE j \in ok : \A k \in ok : j <= k

\* mutant of AllocFrom: the outer loop does not stop at the first success
RECURSIVE AllocFromNoStop(_, _, _, _)
AllocFromNoStop(taken, encs, n, encFail) ==
  IF n > Len(encs) THEN 0
  ELSE LET rest == AllocFromNoStop(taken, encs, n + 1, encFail)
       IN  IF rest # 0 THEN rest
           ELSE IF encs[n] \in encFail THEN 0
           ELSE FirstFreeCrtc(taken, encs[n])

\* the outer loop from encoder number n on; encFail is the set of encoders
\* for which drmModeGetEncoder fails
RECURSIVE AllocFrom(_, _, _, _)
AllocFrom(taken, encs, n, encFail) ==
  IF n > Len(encs) THEN 0
  ELSE IF encs[n] \in encFail THEN AllocFrom(taken, encs, n + 1, encFail)
  ELSE IF FirstFreeCrtc(taken, encs[n]) # 0 THEN FirstFreeCrtc(taken, encs[n])
  ELSE AllocFrom(taken, encs, n + 1, encFail)

\* the CRTC allocation of connector c: the bit number bound, 0 on failure
AllocCrtc(taken, c, encFail) == AllocFrom(taken, ConnEncoders(c), 1, encFail)

\* the error label: the display after it
ModesetError(d) == [d EXCEPT !.state = "DISCONNECTED"]
\* the error label: the events queued
ModesetErrorEvents(i) == <<Event(i, "DISPLAY_REM")>>

\* drmModePageFlip on CRTC j for display i: the kernel refuses (EBUSY)
\* while a flip is pending on that CRTC
SubmitFlip(flips, j, i) ==
  IF flips[j] = 0 THEN [flips EXCEPT ![j] = i] ELSE flips

CrtcIndex(id) == id - 200

\* display_init_renderer: the display afterwards; how is "ok", "gbm_fail"
\* (gbm_surface_create failed) or "egl_fail" (no window surface)
InitRendererDisplay(d, how) ==
  IF how = "gbm_fail" THEN [d EXCEPT !.gbm = "null"]
  ELSE IF how = "egl_fail" THEN [d EXCEPT !.gbm = "live", !.egl = "null"]
  ELSE [d EXCEPT !.gbm = "live", !.egl = "live"]

RendererOutcomes == {"ok", "gbm_fail", "egl_fail"}

\* the modeset of display i fails with the display left as dx
ModesetFail(i, dx, str) ==
  /\ displays' = [displays EXCEPT ![i] = ModesetError(dx)]
  /\ emitted' = ModesetErrorEvents(i)
  /\ lastOp' = Op("modeset", i, FALSE, 0)
  /\ UNCHANGED <<taken_crtcs, hw_flip, last_setcrtc, crashed>>

\* mutant of ModesetOk: the bit of the CRTC is not set
ModesetOkNoMark(i, dx, str, j, how) ==
  LET dc == [dx EXCEPT !.crtc = CrtcId(j), !.state = "CONNECTED"]
  IN  /\ taken_crtcs' = taken_crtcs
      /\ displays' = [displays EXCEPT ![i] = InitRendererDisplay(dc, how)]
      /\ hw_flip' = IF how = "ok" THEN SubmitFlip(hw_flip, j, i) ELSE hw_flip
      /\ last_setcrtc' = IF how = "ok"
                           THEN [last_setcrtc EXCEPT ![i] = "active"]
                           ELSE last_setcrtc
      /\ emitted' = <<>>
      /\ lastOp' = Op("modeset", i, TRUE, 0)
      /\ UNCHANGED crashed

\* the modeset of display i succeeds with CRTC bit j
ModesetOk(i, dx, str, j, how) ==
  LET dc == [dx EXCEPT !.crtc = CrtcId(j), !.state = "CONNECTED"]
  IN  /\ taken_crtcs' = taken_crtcs \cup {j}
      /\ displays' = [displays EXCEPT ![i] = InitRendererDisplay(dc, how)]
      /\ hw_flip' = IF how = "ok" THEN SubmitFlip(hw_flip, j, i) ELSE hw_flip
      /\ last_setcrtc' = IF how = "ok"
                           THEN [last_setcrtc EXCEPT ![i] = "active"]
                           ELSE last_setcrtc
      /\ emitted' = <<>>
      /\ lastOp' = Op("modeset", i, TRUE, 0)
      /\ UNCHANGED crashed

\* assert(0) in select_mode ends the process
ModesetAbort(i) ==
  /\ crashed' = TRUE
  /\ lastOp' = Op("abort", i, FALSE, 0)
  /\ UNCHANGED <<displays, emitted, taken_crtcs, hw_flip, last_setcrtc>>

\* from the call of select_mode on, with the mode list and snapshot in dx;
\* hows are the outcomes display_init_renderer can have
ModesetSelect(i, dx, str, hows) ==
  LET sel == SelectMode(dx.modes, dx.old_crtc, str)
  IN  IF sel = SelAbort THEN ModesetAbort(i)
      ELSE IF sel = SelNull THEN ModesetFail(i, dx, str)
      ELSE \/ ModesetFail(i, dx, str)               \* drmModeGetResources fails
           \/ \E encFail \in SUBSET {ConnEncoders(i)[n] :
                                       n \in 1..Len(ConnEncoders(i))},
                 how \in hows :
                LET j == AllocCrtc(taken_crtcs, i, encFail)
                IN  IF j = 0 THEN ModesetFail(i, dx, str)
                    ELSE ModesetOk(i, dx, str, j, how)

\* wlr_drm_display_modeset(backend, &displays[i], str); snaps are the
\* answers drmModeGetCrtc can give
ModesetCore(i, str, snaps, hows) ==
  /\ freeing = 0 /\ ~crashed
  /\ i \in 1..display_len
  /\ LET d == displays[i]
         dm == [d EXCEPT !.modes = HwModes(i), !.modes_st = "live"]
     IN  \/ \* drmModeGetConnector fails (always, for connector id 0), the
            \* connector is not connected, or it has no modes
            ModesetFail(i, d, str)
         \/ \* malloc of the mode list fails
            /\ d.connector # 0
            /\ ModesetFail(i, [d EXCEPT !.modes = <<>>, !.modes_st = "null"], str)
         \/ /\ d.connector # 0
            /\ \/ ModesetSelect(i, dm, str, hows)  \* no current encoder
               \/ \E snap \in snaps :
                    ModesetSelect(i, [dm EXCEPT !.old_crtc = snap], str, hows)
  /\ UNCHANGED <<evq, freeing, maxGrown, maxSeen, sm, al>>

(* ------------------------------------------------------------------ *)
(* page_flip_handler, wlr_drm_event                                    *)
(* ------------------------------------------------------------------ *)
\* page_flip_handler: the display afterwards
PageFlipHandler(d) == [d EXCEPT !.pageflip_pending = TRUE]
\* page_flip_handler: the events queued for display i
HandlerEvents(d, i) == IF ~d.cleanup THEN <<Event(i, "RENDER")>> ELSE <<>>

\* drmHandleEvent: the handler runs once for every event read from the fd
RECURSIVE HandleTable(_, _)
HandleTable(tbl, q) ==
  IF q = <<>> THEN tbl
  ELSE HandleTable([tbl EXCEPT ![Head(q)] = PageFlipHandler(@)], Tail(q))

RECURSIVE HandleEvents(_, _)
HandleEvents(tbl, q) ==
  IF q = <<>> THEN <<>>
  ELSE HandlerEvents(tbl[Head(q)], Head(q)) \o HandleEvents(tbl, Tail(q))

\* wlr_drm_event(fd), called when the fd is readable
EventCore ==
  /\ freeing = 0 /\ ~crashed
  /\ evq # <<>>
  /\ displays' = HandleTable(displays, evq)
  /\ emitted' = HandleEvents(displays, evq)
  /\ evq' = <<>>
  /\ lastOp' = Op("event", 0, TRUE, 0)
  /\ UNCHANGED <<taken_crtcs, hw_flip, last_setcrtc, freeing, crashed,
                 maxGrown, maxSeen, sm, al>>

(* ------------------------------------------------------------------ *)
(* wlr_drm_display_begin                                               *)
(* ------------------------------------------------------------------ *)
\* called for a display whose surfaces exist: eglMakeCurrent, which writes
\* nothing of the backend or of the display
BeginCore(i) ==
  /\ freeing = 0 /\ ~crashed
  /\ i \in 1..display_len
  /\ displays[i].gbm = "live" /\ displays[i].egl = "live"
  /\ emitted' = <<>>
  /\ lastOp' = Op("begin", i, TRUE, 0)
  /\ UNCHANGED <<displays, taken_crtcs, hw_flip, evq, last_setcrtc, freeing,
                 crashed, maxGrown, maxSeen, sm, al>>

(* ------------------------------------------------------------------ *)
(* wlr_drm_display_end                                                 *)
(* ------------------------------------------------------------------ *)
\* wlr_drm_display_end: the display afterwards
EndDisplay(d) == [d EXCEPT !.pageflip_pending = FALSE]

\* called for a display whose surfaces exist
EndCore(i) ==
  /\ freeing = 0 /\ ~crashed
  /\ i \in 1..display_len
  /\ displays[i].gbm = "live" /\ displays[i].egl = "live"
  /\ hw_flip' = SubmitFlip(hw_flip, CrtcIndex(displays[i].crtc), i)
  /\ displays' = [displays EXCEPT ![i] = EndDisplay(@)]
  /\ emitted' = <<>>
  /\ lastOp' = Op("end", i, hw_flip[CrtcIndex(displays[i].crtc)] = 0, 0)
  /\ UNCHANGED <<taken_crtcs, evq, last_setcrtc, freeing, crashed,
                 maxGrown, maxSeen, sm, al>>

(* ------------------------------------------------------------------ *)
(* wlr_drm_display_free                                                *)
(* ------------------------------------------------------------------ *)
\* the function takes the old_crtc branch: the pointer is not NULL
FreeWaits(d) == d.old_crtc.present

\* the calls after the old_crtc branch: surfaces destroyed, modes freed
FreeTail(d) ==
  [d EXCEPT !.egl = IF @ = "live" THEN "destroyed" ELSE @,
            !.gbm = IF @ = "live" THEN "destroyed" ELSE @,
            !.modes_st = IF @ = "live" THEN "freed" ELSE @]

\* wlr_drm_display_free(&displays[i]) would release what is not there or
\* was released before: behaviour undefined
FreeInvalid(d) ==
  /\ d.state = "CONNECTED"
  /\ \/ d.gbm # "live" \/ d.egl = "destroyed" \/ d.modes_st = "freed"
     \/ d.old_crtc.freed

\* one outcome of that undefined behaviour: the process dies in the call
FreeCrashCore(i) ==
  /\ freeing = 0 /\ ~crashed
  /\ i \in 1..display_len
  /\ FreeInvalid(displays[i])
  /\ crashed' = TRUE
  /\ lastOp' = Op("abort", i, FALSE, 0)
  /\ UNCHANGED <<displays, taken_crtcs, hw_flip, evq, last_setcrtc, freeing,
                 emitted, maxGrown, maxSeen, sm, al>>

\* drmModeSetCrtc of the snapshot and drmModeFreeCrtc: the display afterwards
FreeRestore(d) == [d EXCEPT !.old_crtc.freed = TRUE]

\* the configurations the restore can apply: the snapshot, or whatever the
\* released memory holds when the snapshot was freed before
RestoreOutcomes(d) ==
  IF d.old_crtc.freed THEN {"snapshot", "garbage"} ELSE {"snapshot"}

\* entry of wlr_drm_display_free up to the busy-wait
FreeEnterCore(i) ==
  /\ freeing = 0 /\ ~crashed
  /\ i \in 1..display_len
  /\ LET d == displays[i]
     IN  IF d.state # "CONNECTED"
           THEN /\ lastOp' = Op("free", i, FALSE, 0)
                /\ UNCHANGED <<displays, freeing, crashed>>
         ELSE IF FreeWaits(d)
           THEN /\ displays' = [displays EXCEPT ![i].cleanup = TRUE]
                /\ freeing' = i
                /\ lastOp' = Op("free_wait", i, TRUE, 0)
                /\ UNCHANGED crashed
         ELSE /\ displays' = [displays EXCEPT ![i] = FreeTail(d)]
              /\ lastOp' = Op("free", i, TRUE, 0)
              /\ UNCHANGED <<freeing, crashed>>
  /\ emitted' = <<>>
  /\ UNCHANGED <<taken_crtcs, hw_flip, evq, last_setcrtc, maxGrown, maxSeen, sm, al>>

\* one turn of the busy-wait: drmHandleEvent while pageflip_pending
FreeSpinCore ==
  /\ freeing # 0 /\ ~crashed
  /\ displays[freeing].pageflip_pending
  /\ evq # <<>>
  /\ displays' = HandleTable(displays, evq)
  /\ emitted' = emitted \o HandleEvents(displays, evq)
  /\ evq' = <<>>
  /\ UNCHANGED <<taken_crtcs, hw_flip, last_setcrtc, freeing, crashed,
                 lastOp, maxGrown, maxSeen, sm, al>>

\* the busy-wait ends: restore, release, return
FreeExitCore ==
  /\ freeing # 0 /\ ~crashed
  /\ ~displays[freeing].pageflip_pending
  /\ LET d == displays[freeing]
     IN  /\ displays' = [displays EXCEPT ![freeing] = FreeTail(FreeRestore(d))]
         /\ \E cfg \in RestoreOutcomes(d) :
              last_setcrtc' = [last_setcrtc EXCEPT ![freeing] = cfg]
         /\ UNCHANGED crashed
  /\ freeing' = 0
  /\ lastOp' = Op("free", freeing, TRUE, 0)
  /\ UNCHANGED <<taken_crtcs, hw_flip, evq, emitted, maxGrown, maxSeen, sm, al>>

(* ------------------------------------------------------------------ *)
(* The hardware                                                        *)
(* ------------------------------------------------------------------ *)
\* the flip pending on CRTC j completes: its event is queued on the fd
VblankCore(j) ==
  /\ ~crashed
  /\ j \in CrtcIdx
  /\ hw_flip[j] # 0
  /\ Len(evq) < MaxEvq
  /\ evq' = Append(evq, hw_flip[j])
  /\ hw_flip' = [hw_flip EXCEPT ![j] = 0]
  /\ UNCHANGED <<displays, taken_crtcs, last_setcrtc, freeing, crashed,
                 emitted, lastOp, maxGrown, maxSeen, sm, al>>

(* ------------------------------------------------------------------ *)
(* The backend: every entry point may be called at any time            *)
(* ------------------------------------------------------------------ *)
SmIdle ==
  [pc |-> "idle", form |-> "none", w |-> 0, h |-> 0, r |-> 0,
   modes |-> <<>>, old |-> NoCrtc, str |-> <<>>, ret |-> SelNull]

\* scanIn when the last operation was not a scan
NoScanIn == [resOk |-> FALSE, reallocOk |-> FALSE, conn |-> <<>>]
NoScan == [in |-> NoScanIn, rep |-> FALSE]

\* ep before the tracked display is first observed plugged
EpIdle ==
  [st |-> "none", fresh |-> FALSE, adds |-> 0, rems |-> 0, modesets |-> 0,
   scans |-> 0]

InitBackend ==
  /\ displays = <<>>
  /\ taken_crtcs = {}
  /\ hw_flip = [j \in CrtcIdx |-> 0]
  /\ evq = <<>>
  /\ last_setcrtc = [i \in Conns |-> "none"]
  /\ freeing = 0
  /\ crashed = FALSE
  /\ emitted = <<>>
  /\ lastOp = Op("init", 0, TRUE, 0)
  /\ scanIn = NoScan
  /\ ep = EpIdle
  /\ maxGrown = 0
  /\ maxSeen = 0

\* al when no allocation is under test
AlIdle ==
  [pc |-> "idle", taken |-> {}, encs |-> <<>>, encFail |-> {}, ret |-> 0]

Init == InitBackend /\ sm = SmIdle /\ al = AlIdle

\* the history variables that only some specifications track
Untracked == ep' = ep /\ scanIn' = scanIn

\* Spec follows one display through every operation and every answer of
\* the hardware: the device has the connectors Driven
Driven == {1}

Scan ==
  \E in \in ScanInputs :
    Len(in.conn) <= Cardinality(Driven) /\ ScanCore(in) /\ Untracked
Modeset ==
  \E i \in Driven, str \in ModesetStrs :
    ModesetCore(i, str, ListedSnaps(i), RendererOutcomes) /\ Untracked
HandleEvent == EventCore /\ Untracked
Begin == \E i \in Driven : BeginCore(i) /\ Untracked
End == \E i \in Driven : EndCore(i) /\ Untracked
FreeEnter == \E i \in Driven : FreeEnterCore(i) /\ Untracked
FreeSpin == FreeSpinCore /\ Untracked
FreeExit == FreeExitCore /\ Untracked
FreeCrash == \E i \in Driven : FreeCrashCore(i) /\ Untracked
Vblank == \E j \in CrtcIdx : VblankCore(j) /\ Untracked

Next ==
  \/ Scan
  \/ Modeset
  \/ HandleEvent
  \/ Begin
  \/ End
  \/ FreeEnter
  \/ FreeSpin
  \/ FreeExit
  \/ FreeCrash
  \/ Vblank

Spec == Init /\ [][Next]_vars

(* ------------------------------------------------------------------ *)
(* Allocation specification: the operations that write the display     *)
(* states and the CRTC bitmask, over MaxConn connectors. The connectors *)
(* have no current CRTC and display_init_renderer succeeds.            *)
(* ------------------------------------------------------------------ *)
ScanAll == \E in \in ScanInputs : ScanCore(in) /\ Untracked

ModesetAll ==
  \E i \in Conns, str \in ModesetStrs :
    ModesetCore(i, str, {NoCrtc}, {"ok"}) /\ Untracked

NextAlloc ==
  \/ ScanAll
  \/ ModesetAll

SpecAlloc == Init /\ [][NextAlloc]_vars

(* ------------------------------------------------------------------ *)
(* Plug/unplug specification: SpecAlloc with the history ep            *)
(* ------------------------------------------------------------------ *)
\* the display whose plug/unplug episode ep records
EpSlot == CHOOSE i \in Conns : \A k \in Conns : i <= k

\* number of events of kind k for display i in evs
CountEvents(evs, i, k) ==
  Cardinality({n \in 1..Len(evs) : evs[n] = Event(i, k)})

\* counters of ep stop at 2
Cap(n) == IF n > 2 THEN 2 ELSE n

\* what the scan with answers in saw of the tracked connector
EpObserved(tbl, in) ==
  IF ScanAborted(tbl, in) \/ Len(in.conn) < EpSlot THEN "fail"
  ELSE in.conn[EpSlot]

\* ep after a scan of table tbl with answers in that queued evs: a scan that
\* sees the connector plugged opens an episode (fresh when the display was
\* unplugged or unseen before), a scan that sees it unplugged closes it
EpAfterScan(e, tbl, in, evs) ==
  LET obs == EpObserved(tbl, in)
      adds == CountEvents(evs, EpSlot, "DISPLAY_ADD")
      rems == CountEvents(evs, EpSlot, "DISPLAY_REM")
  IN  IF obs = "connected" THEN
        IF e.st = "open"
          THEN [e EXCEPT !.scans = 1, !.adds = Cap(@ + adds)]
          ELSE [st |-> "open",
                fresh |-> \/ Len(tbl) < EpSlot
                          \/ tbl[EpSlot].state \in {"INVALID", "DISCONNECTED"},
                adds |-> adds, rems |-> 0, modesets |-> 0, scans |-> 0]
      ELSE IF obs = "disconnected" /\ e.st = "open"
        THEN [e EXCEPT !.st = "closed", !.rems = Cap(@ + rems)]
      ELSE e

\* ep after a modeset of display i that queued evs
EpAfterModeset(e, i, evs) ==
  IF i = EpSlot /\ e.st = "open"
    THEN [e EXCEPT !.modesets = Cap(@ + 1),
                   !.rems = Cap(@ + CountEvents(evs, EpSlot, "DISPLAY_REM"))]
    ELSE e

ScanEp ==
  \E in \in ScanInputs :
    /\ ScanCore(in)
    /\ ep' = EpAfterScan(ep, displays, in, emitted')
    /\ scanIn' = scanIn

ModesetEp ==
  \E i \in Conns, str \in ModesetStrs :
    /\ ModesetCore(i, str, {NoCrtc}, {"ok"})
    /\ ep' = EpAfterModeset(ep, i, emitted')
    /\ scanIn' = scanIn

NextEp ==
  \/ ScanEp
  \/ ModesetEp

SpecEp == Init /\ [][NextEp]_vars

(* ------------------------------------------------------------------ *)
(* Rescan specification: SpecAlloc with the history scanIn             *)
(* ------------------------------------------------------------------ *)
\* two scans got the same answers from the hardware
SameHardware(a, b) == a.resOk = b.resOk /\ a.conn = b.conn

\* scanIn after a scan with answers in: rep marks a scan that repeats the
\* scan before it, which was not cut short by a failed realloc
ScanInAfter(si, in) ==
  [in |-> in,
   rep |-> si.in # NoScanIn /\ SameHardware(si.in, in) /\ si.in.reallocOk]

ScanRs ==
  \E in \in ScanInputs :
    ScanCore(in) /\ scanIn' = ScanInAfter(scanIn, in) /\ ep' = ep

ModesetRs ==
  \E i \in Conns, str \in ModesetStrs :
    ModesetCore(i, str, {NoCrtc}, {"ok"}) /\ scanIn' = NoScan /\ ep' = ep

NextRescan ==
  \/ ScanRs
  \/ ModesetRs

SpecRescan == Init /\ [][NextRescan]_vars

(* ------------------------------------------------------------------ *)
(* The mode-selection specification: select_mode on bounded inputs     *)
(* ------------------------------------------------------------------ *)
ModePool == {Mode(w, h, r) : w \in {8, 16}, h \in {6}, r \in {30, 60}}
ModeLists == UNION {[1..n -> ModePool] : n \in 1..MaxModes}
ReqW == {8, 16}
ReqH == {6, 12}
ReqR == {0, 30, 60}
OldCrtcs == {NoCrtc, Crtc(Mode(8, 6, 60)), Crtc(AlienMode)}

SmRequests ==
  {[form |-> "preferred", w |-> 0, h |-> 0, r |-> 0, str |-> StrPreferred],
   [form |-> "current", w |-> 0, h |-> 0, r |-> 0, str |-> StrCurrent],
   [form |-> "invalid", w |-> 0, h |-> 0, r |-> 0, str |-> <<"8", "x">>]}
  \cup {[form |-> "wh", w |-> w, h |-> h, r |-> 0, str |-> FmtWH(w, h)] :
          w \in ReqW, h \in ReqH}
  \cup {[form |-> "whr", w |-> w, h |-> h, r |-> r, str |-> FmtWHR(w, h, r)] :
          w \in ReqW, h \in ReqH, r \in ReqR}

InitMode ==
  /\ InitBackend
  /\ al = AlIdle
  /\ \E q \in SmRequests, ms \in ModeLists, o \in OldCrtcs :
       sm = [pc |-> "call", form |-> q.form, w |-> q.w, h |-> q.h, r |-> q.r,
             modes |-> ms, old |-> o, str |-> q.str, ret |-> SelNull]

SmCall ==
  /\ sm.pc = "call"
  /\ sm' = [sm EXCEPT !.pc = "done",
                      !.ret = SelectMode(sm.modes, sm.old, sm.str)]
  /\ UNCHANGED <<displays, taken_crtcs, hw_flip, evq, last_setcrtc,
                 freeing, crashed, emitted, lastOp, scanIn, ep, maxGrown,
                 maxSeen, al>>

NextMode == SmCall

SpecMode == InitMode /\ [][NextMode]_vars

(* ------------------------------------------------------------------ *)
(* Properties                                                          *)
(* ------------------------------------------------------------------ *)
Slots == 1..Len(displays)
StateOf(i) == displays[i].state

\* the edges of the display state machine
LegalEdges ==
  {<<"INVALID", "DISCONNECTED">>, <<"DISCONNECTED", "NEEDS_MODESET">>,
   <<"NEEDS_MODESET", "CONNECTED">>, <<"NEEDS_MODESET", "DISCONNECTED">>,
   <<"CONNECTED", "DISCONNECTED">>}

\* one operation takes a display from a to b along the edges; a scan may
\* take a slot it sees for the first time over two edges
LegalStep(a, b, op) ==
  \/ a = b
  \/ <<a, b>> \in LegalEdges
  \/ op = "scan" /\ a = "INVALID" /\ b = "NEEDS_MODESET"

\* C1: every change of a display's state, by any operation, follows one of
\* the five edges of the state machine.
C1_OnlyLegalTransitions ==
  [][\A i \in Slots : LegalStep(StateOf(i), displays'[i].state, lastOp'.op)]_vars

\* C2: a bit of the CRTC bitmask is set if and only if a display that is
\* CONNECTED owns that CRTC.
C2_BitmaskIffConnected ==
  \A j \in CrtcIdx :
    j \in taken_crtcs <=>
      \E i \in Slots : StateOf(i) = "CONNECTED" /\ displays[i].crtc = CrtcId(j)

\* C3: two distinct displays that are both CONNECTED never have the same CRTC.
C3_NoDoubleAssign ==
  \A a, b \in Slots :
    (a # b /\ StateOf(a) = "CONNECTED" /\ StateOf(b) = "CONNECTED")
      => displays[a].crtc # displays[b].crtc

\* two displays are CONNECTED at once, the second just modeset
C3_Witness ==
  /\ Len(displays) >= 2
  /\ StateOf(1) = "CONNECTED" /\ StateOf(2) = "CONNECTED"
  /\ lastOp.op = "modeset" /\ lastOp.ret

\* an episode of the claim: plugged scan, at most one modeset, unplugged scan
EpInScope == ep.st = "closed" /\ ep.scans = 0 /\ ep.modesets <= 1

\* C4 as stated: a scan that sees the connector plugged and a later scan that
\* sees it unplugged give exactly one ADD and then exactly one REM, with no
\* modeset, a failed modeset or a successful modeset in between.
C4_OneAddOneRem == EpInScope => (ep.adds = 1 /\ ep.rems = 1)

\* C4 as amended: for a display that was unplugged or unseen, the plugged
\* scan gives exactly one ADD; with exactly one modeset call before the
\* unplugged scan exactly one REM follows, with no modeset call none does.
C4_OneAddRemAfterModeset ==
  (EpInScope /\ ep.fresh) =>
    /\ ep.adds = 1
    /\ ep.modesets = 1 => ep.rems = 1
    /\ ep.modesets = 0 => ep.rems = 0

\* the unplugged scan has just queued the REM of a display that was modeset
C4_Witness ==
  /\ EpInScope /\ ep.fresh /\ ep.modesets = 1 /\ ep.rems = 1
  /\ lastOp.op = "scan"
  /\ emitted = <<Event(EpSlot, "DISPLAY_REM")>>

\* C5: when free() returns for a display that was CONNECTED, its pending
\* flip flag is false and the configuration last applied is the snapshot.
C5_FreeRestoresSnapshot ==
  (lastOp.op = "free" /\ lastOp.ret) =>
    /\ ~displays[lastOp.disp].pageflip_pending
    /\ last_setcrtc[lastOp.disp] = "snapshot"

\* flips submitted for display i whose completion callback has not run
Outstanding(i) ==
  Cardinality({j \in CrtcIdx : hw_flip[j] = i})
    + Cardinality({n \in 1..Len(evq) : evq[n] = i})

\* C6: no display ever has more than one flip whose completion callback is
\* still to be delivered.
C6_OneFlipOutstanding == \A i \in Slots : Outstanding(i) <= 1

\* hardware answers of the scan before and of this scan
C7_Repeat == scanIn.in # NoScanIn /\ scanIn'.in # NoScanIn
             /\ SameHardware(scanIn.in, scanIn'.in)
C7_Quiet == emitted' = <<>> /\ displays' = displays

\* C7 as stated: the second of two consecutive scans with no hardware change
\* queues no event and changes no display.
C7_RescanQuiet == [][C7_Repeat => C7_Quiet]_vars

\* C7 as amended: the same, when the first scan was not cut short by a
\* failed growth of the slot table.
C7_RescanQuietAfterFullScan ==
  [][(C7_Repeat /\ scanIn.in.reallocOk) => C7_Quiet]_vars

\* a scan has just repeated a scan that found a connector plugged
C7_Witness ==
  /\ scanIn.rep /\ lastOp.op = "scan"
  /\ \E i \in Slots : scanIn.in.conn[i] = "connected"
                        /\ StateOf(i) = "NEEDS_MODESET"

\* the first mode of ms with width w, height h and, when exact, rate r
FirstExact(ms, w, h, r, exact) ==
  LET P(m) == m.hdisplay = w /\ m.vdisplay = h /\ (exact => m.vrefresh = r)
  IN  FirstIndex({i \in 1..Len(ms) : P(ms[i])})

\* C8: for WxH@R the selector returns the first mode with exactly that width,
\* height and rate or fails; for WxH the first mode with that width and
\* height; for every R, 0 included.
C8_NumericSelectExact ==
  sm.pc = "done" =>
    /\ sm.form = "whr" => sm.ret = FirstExact(sm.modes, sm.w, sm.h, sm.r, TRUE)
    /\ sm.form = "wh" => sm.ret = FirstExact(sm.modes, sm.w, sm.h, 0, FALSE)

\* a slot with its state, connector id and name cleared
Unstamped(d) == [d EXCEPT !.state = "INVALID", !.connector = 0, !.name = <<>>]

\* the table never shrinks; slots that existed keep everything a scan does
\* not write; slots a scan adds are INVALID slots, stamped at most
C9_TableKept ==
  /\ Len(displays') >= Len(displays)
  /\ \A i \in Slots :
       lastOp'.op = "scan" =>
         /\ Unstamped(displays'[i]) = Unstamped(displays[i])
         /\ StateOf(i) # "INVALID" =>
              /\ displays'[i].connector = displays[i].connector
              /\ displays'[i].name = displays[i].name
  /\ \A i \in (Len(displays) + 1)..Len(displays') :
       Unstamped(displays'[i]) = InvalidDisplay

\* C9 as stated: the table never shrinks, keeps its slots when it grows, and
\* is at least as long as the largest connector count reported so far.
C9_TableCoversReported ==
  [][C9_TableKept /\ Len(displays') >= maxSeen']_vars

\* C9 as amended: the same, for the largest connector count reported to a
\* scan that was not cut short by a failed realloc.
C9_TableCoversGrown ==
  [][C9_TableKept /\ Len(displays') >= maxGrown']_vars

\* a scan has just added a slot to a table whose first display is CONNECTED
C9_Witness ==
  /\ lastOp.op = "scan" /\ lastOp.n > 0
  /\ Len(displays) = maxGrown /\ Len(displays) >= 2
  /\ StateOf(1) = "CONNECTED"

\* C10: after end() has submitted a flip the pending-flip flag is true, and
\* after the completion callback of a display has run its flag is false.
C10_FlagTracksFlip ==
  /\ (lastOp.op = "end" /\ lastOp.ret) => displays[lastOp.disp].pageflip_pending
  /\ lastOp.op = "event" =>
       \A n \in 1..Len(emitted) : ~displays[emitted[n].disp].pageflip_pending

(* ------------------------------------------------------------------ *)
(* Teardown under hardware liveness: Spec, where the busy-wait of       *)
(* wlr_drm_display_free keeps running and every flip the kernel has     *)
(* accepted completes                                                  *)
(* ------------------------------------------------------------------ *)
SpecLive ==
  Spec /\ WF_vars(FreeSpin) /\ WF_vars(FreeExit) /\ WF_vars(Vblank)

\* C11: when the hardware completes every flip submitted, every call of
\* free() that entered the busy-wait eventually leaves it and returns.
C11_FreeReturns == (freeing # 0) ~> (freeing = 0)

(* ------------------------------------------------------------------ *)
(* RENDER events of the completion callback                            *)
(* ------------------------------------------------------------------ *)
\* a call of drmHandleEvent has just read the events queued on the fd
Pumped == evq # <<>> /\ evq' = <<>>

\* the events that call queued
PumpedEvents ==
  IF freeing # 0 THEN SubSeq(emitted', Len(emitted) + 1, Len(emitted'))
  ELSE emitted'

\* one RENDER for every completion in q of a display that free() is not
\* running for
RendersDue(q) ==
  LET Live(i) == i # freeing
      due == SelectSeq(q, Live)
  IN  [n \in 1..Len(due) |-> Event(due[n], "RENDER")]

\* C12: every completion callback queues exactly one RENDER for its display
\* when no free() is running for that display, and none when one is.
C12_RenderUnlessTeardown == [][Pumped => PumpedEvents = RendersDue(evq)]_vars

(* ------------------------------------------------------------------ *)
(* Failures of the modeset                                             *)
(* ------------------------------------------------------------------ *)
\* C13: a modeset in which any step failed, the creation of the drawable or
\* of the rendering surface included, leaves the display DISCONNECTED, queues
\* exactly one DISPLAY_REM and returns failure; a modeset that returns
\* success leaves the display CONNECTED with both surfaces created.
C13_ModesetFailureRollsBack ==
  lastOp.op = "modeset" =>
    LET d == displays[lastOp.disp]
    IN  /\ ~lastOp.ret =>
             /\ d.state = "DISCONNECTED"
             /\ emitted = <<Event(lastOp.disp, "DISPLAY_REM")>>
        /\ lastOp.ret =>
             /\ d.state = "CONNECTED"
             /\ d.gbm = "live" /\ d.egl = "live"
             /\ emitted = <<>>

(* ------------------------------------------------------------------ *)
(* Teardown after a physical disconnect                                *)
(* ------------------------------------------------------------------ *)
\* the scan that has just run moved display i from CONNECTED to
\* DISCONNECTED: it queued the DISPLAY_REM of i
ScanUnplugged(i) ==
  /\ lastOp.op = "scan"
  /\ \E n \in 1..Len(emitted) : emitted[n] = Event(i, "DISPLAY_REM")

\* nothing of display d is left allocated, and its CRTC runs what it ran
\* before the modeset when that was recorded
TornDown(d, cfg) ==
  /\ d.egl # "live" /\ d.gbm # "live" /\ d.modes_st # "live"
  /\ d.old_crtc.present => cfg = "snapshot"

\* C14: when free() is called for a display in response to the DISPLAY_REM
\* of the scan that found it unplugged, the display's surfaces and mode list
\* are released and its previous CRTC configuration is restored by the time
\* free() returns.
C14_UnplugTearsDown ==
  [][\A i \in Slots :
       (ScanUnplugged(i) /\ lastOp'.op = "free" /\ lastOp'.disp = i)
         => TornDown(displays'[i], last_setcrtc'[i])]_vars

(* ------------------------------------------------------------------ *)
(* The allocation-step specification: the CRTC search of the modeset   *)
(* on bounded encoder lists, bitmasks and encoder query failures       *)
(* ------------------------------------------------------------------ *)
Encoders == 1..SharedEnc
EncoderLists == UNION {[1..n -> Encoders] : n \in 0..MaxConn}

InitCrtc ==
  /\ InitBackend
  /\ sm = SmIdle
  /\ \E t \in SUBSET CrtcIdx, es \in EncoderLists, f \in SUBSET Encoders :
       al = [pc |-> "call", taken |-> t, encs |-> es, encFail |-> f, ret |-> 0]

AlCall ==
  /\ al.pc = "call"
  /\ al' = [al EXCEPT !.pc = "done",
                      !.ret = AllocFrom(al.taken, al.encs, 1, al.encFail)]
  /\ UNCHANGED <<displays, taken_crtcs, hw_flip, evq, last_setcrtc, freeing,
                 crashed, emitted, lastOp, scanIn, ep, maxGrown, maxSeen, sm>>

NextCrtc == AlCall

SpecCrtc == InitCrtc /\ [][NextCrtc]_vars

\* the pairs (position in the encoder list, CRTC bit) the search may bind:
\* the encoder is one of ok, the CRTC is possible for it and not taken
Candidates(a, ok) ==
  {c \in (1..Len(a.encs)) \X CrtcIdx :
     /\ a.encs[c[1]] \in ok
     /\ c[2] \in PossibleCrtcs(a.encs[c[1]])
     /\ c[2] \notin a.taken}

\* c comes no later than d in encoder order, then pipeline order
EarlierOrSame(c, d) == c[1] < d[1] \/ (c[1] = d[1] /\ c[2] <= d[2])

\* the allocation succeeded iff cands is not empty, and bound the CRTC of
\* its first pair
BindsFirstOf(a, cands) ==
  /\ a.ret # 0 <=> cands # {}
  /\ a.ret # 0 =>
       \E c \in cands : /\ c[2] = a.ret
                        /\ \A d \in cands : EarlierOrSame(c, d)

\* C15 as stated: the allocation succeeds iff some encoder of the connector
\* has a compatible CRTC whose bit is unset, and binds the first such CRTC
\* in encoder order, then pipeline order.
C15_AllocFirstFree ==
  al.pc = "done" => BindsFirstOf(al, Candidates(al, Encoders))

\* C15 as amended: the same, over the encoders of the connector whose query
\* (drmModeGetEncoder) succeeds.
C15_AllocFirstFreeQueried ==
  al.pc = "done" => BindsFirstOf(al, Candidates(al, Encoders \ al.encFail))

\* the search skipped an encoder whose query failed and bound a CRTC of a
\* later encoder of the list
C15_Witness ==
  /\ al.pc = "done" /\ al.ret # 0
  /\ Len(al.encs) >= 2 /\ al.encs[1] \in al.encFail
  /\ al.encs[2] \notin al.encFail

(* ------------------------------------------------------------------ *)
(* Who writes the CRTC bitmask                                         *)
(* ------------------------------------------------------------------ *)
\* the step is a call of wlr_drm_display_modeset; the first two conjuncts,
\* which Modeset implies, spare evaluating it on the other steps
ModesetStep == lastOp'.op \in {"modeset", "abort"} /\ evq' = evq /\ Modeset

\* C16: only a modeset writes the CRTC bitmask: every other operation and a
\* failed modeset leave it unchanged, a successful modeset sets exactly one
\* bit that was unset, and no operation clears a bit.
C16_BitmaskOnlyGrowsInModeset ==
  [][/\ taken_crtcs \subseteq taken_crtcs'
     /\ ~ModesetStep => taken_crtcs' = taken_crtcs
     /\ (ModesetStep /\ ~lastOp'.ret) => taken_crtcs' = taken_crtcs
     /\ (ModesetStep /\ lastOp'.ret) =>
          Cardinality(taken_crtcs' \ taken_crtcs) = 1]_vars

\* free() has returned for a CONNECTED display after two modesets took a
\* CRTC each, and both bits are still set
C16_Witness ==
  /\ lastOp.op = "free" /\ lastOp.ret
  /\ Cardinality(taken_crtcs) = 2

(* ------------------------------------------------------------------ *)
(* What a scan writes                                                  *)
(* ------------------------------------------------------------------ *)
\* slot i before the step; a slot the step adds counts as INVALID before
SlotBefore(i) == IF i <= Len(displays) THEN displays[i] ELSE InvalidDisplay

\* the step neither wrote slot i nor queued an event for display i
Untouched(i) ==
  /\ displays'[i] = SlotBefore(i)
  /\ \A n \in 1..Len(emitted') : emitted'[n].disp # i

\* the scan with answers in got both the resources and connector i
Queried(in, i) == in.resOk /\ i <= Len(in.conn) /\ in.conn[i] # "fail"

\* the scan with answers in reached its loop over the connectors
ReachedLoop(in) ==
  in.resOk /\ (Len(in.conn) > Len(displays) => in.reallocOk)

\* C17: a scan writes a slot and queues events for it only when the resource
\* query and the query of that connector both succeeded; a scan without
\* resources changes nothing; a connector whose query fails keeps its slot
\* as it was, and the other connectors of that scan are processed.
C17_ScanWritesOnlyQueried ==
  [][scanIn'.in # NoScanIn =>
       LET in == scanIn'.in
       IN  /\ ~in.resOk => (displays' = displays /\ emitted' = <<>>)
           /\ \A i \in 1..Len(displays') : ~Queried(in, i) => Untouched(i)
           /\ \A i \in 1..Len(in.conn) :
                (ReachedLoop(in) /\ Queried(in, i)) =>
                  /\ displays'[i].state # "INVALID"
                  /\ SlotBefore(i).state = "INVALID" =>
                       displays'[i].connector = ConnId(i)
                  /\ (/\ SlotBefore(i).state \in {"INVALID", "DISCONNECTED"}
                      /\ in.conn[i] = "connected") =>
                       /\ displays'[i].state = "NEEDS_MODESET"
                       /\ \E n \in 1..Len(emitted') :
                            emitted'[n] = Event(i, "DISPLAY_ADD")]_vars

\* a scan has just skipped connector 1, whose query failed, and found
\* connector 2 plugged
C17_Witness ==
  /\ lastOp.op = "scan" /\ Len(displays) >= 2
  /\ scanIn.in.resOk /\ Len(scanIn.in.conn) >= 2
  /\ scanIn.in.conn[1] = "fail" /\ scanIn.in.conn[2] = "connected"
  /\ StateOf(1) = "INVALID" /\ StateOf(2) = "NEEDS_MODESET"
  /\ emitted = <<Event(2, "DISPLAY_ADD")>>

(* ------------------------------------------------------------------ *)
(* Snapshot specification: SpecAlloc where the connector's current      *)
(* encoder may drive a CRTC, with a mode the connector lists or not     *)
(* ------------------------------------------------------------------ *)
ModesetSnap ==
  \E i \in Conns, str \in ModesetStrs :
    ModesetCore(i, str, CrtcSnaps(i), {"ok"}) /\ Untracked

NextSnap ==
  \/ ScanAll
  \/ ModesetSnap

SpecSnap == Init /\ [][NextSnap]_vars

\* C18: no modeset with request "current" and a snapshot present reaches
\* the assertion after the search loop of the selector: the process is
\* never terminated there.
C18_CurrentNeverAsserts == ~crashed /\ lastOp.op # "abort"

(* ------------------------------------------------------------------ *)
(* Teardown and the flips still in flight                              *)
(* ------------------------------------------------------------------ *)
\* C19: when free() has torn a display down and returned, no flip submitted
\* for that display is still to complete or to be delivered, so no later
\* call of the event pump runs the completion callback for it.
C19_NoFlipOutlivesFree ==
  (lastOp.op = "free" /\ lastOp.ret) => Outstanding(lastOp.disp) = 0

(* ------------------------------------------------------------------ *)
(* Repeated teardown                                                   *)
(* ------------------------------------------------------------------ *)
\* the step is a call of wlr_drm_display_free for display i
FreeCall(i) ==
  /\ freeing = 0 /\ evq' = evq
  /\ lastOp'.disp = i /\ lastOp'.op \in {"free", "free_wait", "abort"}

\* free() released the mode list of d and no modeset replaced it since
FreedBefore(d) == d.modes_st = "freed"

\* C20: a call of free() for a display that free() tore down before, with no
\* successful modeset in between, is a no-op: it releases nothing again,
\* does not touch the snapshot or the CRTC, and returns.
C20_SecondFreeIsNoOp ==
  [][\A i \in Slots :
       (FreeCall(i) /\ FreedBefore(displays[i])) =>
         /\ displays' = displays /\ last_setcrtc' = last_setcrtc
         /\ freeing' = 0 /\ ~crashed']_vars

====
